---------------------------- MODULE Spec2Model ----------------------------
(***************************************************************************)
(* Model of the react-swc-suspense-tracker SWC transform (src/src/lib.rs,  *)
(* src/src/helpers.rs, src/src/settings.rs).                               *)
(*                                                                         *)
(* A module tree is built item by item and element by element, then the    *)
(* visitor's visit_mut_module_items handler runs over it as one step.      *)
(* Option<T> values are modelled as sets with at most one element.         *)
(* Rust strings that the code takes apart (file names, generated ids) are  *)
(* sequences of one-character strings.                                     *)
(***************************************************************************)
EXTENDS Integers, Sequences, FiniteSets, TLC

VARIABLES
    config,                    \* TransformVisitor.config
    context,                   \* TransformVisitor.context
    resolved,                  \* whether SWC's resolver ran before the visitor
    module_items,              \* the Vec<ModuleItem> being transformed
    elements,                  \* the JSX elements of the module (arena)
    has_suspense_elements,     \* TransformVisitor fields
    suspense_tracker_imported,
    react_suspense_contexts,
    react_import_position,
    error_boundary_contexts,
    custom_boundary_config,
    phase,                     \* "build" before the transform, "done" after,
                               \* "again" / "traversed" after a second run
    input_items,               \* module_items as handed to the transform
    input_elements,            \* elements as handed to the transform
    id_args,                   \* arguments of the last id helper call
    id_result                  \* results of the last id helper call

vars == << config, context, resolved, module_items, elements,
           has_suspense_elements, suspense_tracker_imported,
           react_suspense_contexts, react_import_position,
           error_boundary_contexts, custom_boundary_config, phase,
           input_items, input_elements, id_args, id_result >>

-----------------------------------------------------------------------------
(* Bounds *)

MaxImports == 2
MaxFunctions == 1
MaxElements == 2
MaxBoundaries == 1
MaxFilenameLen == 3
MaxLabelLen == 1
MaxLine == 12
MaxPrecedingLines == 3

-----------------------------------------------------------------------------
(* Option<T> *)

None == {}
Some(x) == {x}
Unwrap(o) == CHOOSE x \in o : TRUE
UnwrapOr(o, d) == IF o = None THEN d ELSE Unwrap(o)

-----------------------------------------------------------------------------
(* Strings as character sequences *)

RECURSIVE Digits(_)
Digits(n) ==
    LET d == <<"0","1","2","3","4","5","6","7","8","9">>[(n % 10) + 1]
    IN  IF n < 10 THEN <<d>> ELSE Digits(n \div 10) \o <<d>>

StartsWith(s, p) ==
    /\ Len(s) >= Len(p)
    /\ SubSeq(s, 1, Len(p)) = p

StripPrefix(s, p) ==
    IF StartsWith(s, p) THEN Some(SubSeq(s, Len(p) + 1, Len(s))) ELSE None

ReplaceChar(s, from, to) ==
    [i \in 1..Len(s) |-> IF s[i] = from THEN to ELSE s[i]]

SymChars(sym) ==
    CASE sym = "Suspense"        -> <<"S","u","s","p","e","n","s","e">>
      [] sym = "MySuspense"      -> <<"M","y","S","u","s","p","e","n","s","e">>
      [] sym = "MyErrorBoundary" -> <<"M","y","E","r","r","o","r","B","o","u","n","d","a","r","y">>
      [] sym = "CustomEB"        -> <<"C","u","s","t","o","m","E","B">>
      [] sym = "App"             -> <<"A","p","p">>
      [] sym = "OtherBoundary"   -> <<"O","t","h","e","r","B","o","u","n","d","a","r","y">>
      [] OTHER                   -> <<"?">>

-----------------------------------------------------------------------------
(* helpers.rs *)

\* normalize_filename without the "./" prefix case
normalize_filename_slash_only(filename) ==
    LET cleaned == UnwrapOr(StripPrefix(filename, <<"/">>), filename)
    IN  ReplaceChar(cleaned, "\\", "/")

normalize_filename(filename) ==
    LET dot_slash == StripPrefix(filename, <<".", "/">>)
        stripped  == IF dot_slash # None THEN dot_slash
                     ELSE StripPrefix(filename, <<"/">>)
        cleaned   == UnwrapOr(stripped, filename)
    IN  ReplaceChar(cleaned, "\\", "/")

generate_boundary_id(filename, line) ==
    normalize_filename(filename) \o <<":">> \o Digits(line)

extract_line_number(span_lo) == (span_lo \div 80) + 1

-----------------------------------------------------------------------------
(* Constants of lib.rs *)

SUSPENSE_TRACKER_PACKAGE == "react-swc-suspense-tracker/context"
SUSPENSE_TRACKER_IMPORT_NAME == "SuspenseTrackerSWC"

\* SyntaxContext::empty()
EmptyCtxt == 0
\* The context the resolver gives every top-level binding of a module, and the
\* one it gives references that resolve to no binding of the module.
TopLevelCtxt == 1
UnresolvedCtxt == 2

\* Without the resolver (the test harness of lib.rs) every identifier carries
\* the empty context.
CtxtOf(scope, res) ==
    IF ~res THEN EmptyCtxt
    ELSE IF scope = "top" THEN TopLevelCtxt ELSE UnresolvedCtxt

Ident(sym, ctxt) == [sym |-> sym, ctxt |-> ctxt]

\* JSXElementName: an identifier or a member expression (React.Suspense)
JSXIdentName(sym, ctxt) == [kind |-> "ident", sym |-> sym, ctxt |-> ctxt]
JSXMemberName(sym) == [kind |-> "member", sym |-> sym, ctxt |-> EmptyCtxt]

\* ImportSpecifier::{Named, Default, Namespace}
NamedSpecifier(imported, local) ==
    [kind |-> "named", imported |-> imported, local |-> local]
DefaultSpecifier(local) ==
    [kind |-> "default", imported |-> None, local |-> local]
NamespaceSpecifier(local) ==
    [kind |-> "namespace", imported |-> None, local |-> local]

\* ModuleItem: an import declaration, or a top-level function declaration
\* whose body holds the JSX elements listed in roots.
ImportItem(src, specifiers) ==
    [kind |-> "import", src |-> src, specifiers |-> specifiers,
     sym |-> "", roots |-> << >>]
FnItem(sym) ==
    [kind |-> "fn", src |-> "", specifiers |-> << >>, sym |-> sym,
     roots |-> << >>]

\* JSXAttrOrSpread::JSXAttr with a string literal, an identifier expression,
\* a JSX element expression, or no value.
StrAttr(name, chars) ==
    [name |-> name, kind |-> "str", str |-> chars,
     ident |-> Ident("", EmptyCtxt), element |-> 0]
ExprAttr(name, ident) ==
    [name |-> name, kind |-> "expr", str |-> << >>,
     ident |-> ident, element |-> 0]
ElementAttr(name, e) ==
    [name |-> name, kind |-> "element", str |-> << >>,
     ident |-> Ident("", EmptyCtxt), element |-> e]

\* JSXElement: opening.name, closing (Option of a name), opening.attrs,
\* children and span.lo.
JSXElement(name, has_closing, lo) ==
    [name |-> name,
     closing |-> IF has_closing THEN Some(name) ELSE None,
     attrs |-> << >>, children |-> << >>, lo |-> lo]

-----------------------------------------------------------------------------
(* TransformVisitor (lib.rs) *)

\* TransformVisitor::new: the fields other than config and context
NewVisitor ==
    [has_suspense_elements |-> FALSE,
     suspense_tracker_imported |-> FALSE,
     react_suspense_contexts |-> {},
     react_import_position |-> None,
     error_boundary_contexts |-> {},
     custom_boundary_config |-> None]

\* TransformVisitor::generate_boundary_id(&self, name, span_lo)
visitor_generate_boundary_id(filename, name, span_lo) ==
    LET line == extract_line_number(span_lo)
    IN  generate_boundary_id(filename \o <<"-">> \o name, line)

create_suspense_tracker_import ==
    ImportItem(SUSPENSE_TRACKER_PACKAGE,
               << NamedSpecifier(None,
                      Ident(SUSPENSE_TRACKER_IMPORT_NAME, EmptyCtxt)) >>)

\* The external name of a named specifier: the imported name when aliased,
\* the local name otherwise.
external_name(named) ==
    IF named.imported # None THEN Unwrap(named.imported) ELSE named.local.sym

\* Whether specifiers.retain of process_react_import drops the specifier
is_suspense_specifier(spec) ==
    /\ spec.kind = "named"
    /\ external_name(spec) = "Suspense"

\* process_react_import: the contexts after the call, the declaration after
\* the call and the returned flag.
process_react_import(contexts, import_decl) ==
    IF import_decl.src # "react"
    THEN [contexts |-> contexts, decl |-> import_decl, found |-> FALSE]
    ELSE LET specs == import_decl.specifiers
             hit   == {i \in DOMAIN specs : is_suspense_specifier(specs[i])}
         IN  [contexts |-> contexts \cup {specs[i].local.ctxt : i \in hit},
              decl     |-> [import_decl EXCEPT !.specifiers =
                               SelectSeq(specs,
                                   LAMBDA sp : ~is_suspense_specifier(sp))],
              found    |-> hit # {}]

\* is_react_suspense(&self, jsx_element)
is_react_suspense(contexts, jsx_element) ==
    IF jsx_element.name.kind = "ident" /\ jsx_element.name.sym = "Suspense"
    THEN jsx_element.name.ctxt \in contexts
    ELSE FALSE

\* The gate deciding by the environment alone
gate_open_ignoring_enabled(cfg, ctx) ==
    ctx.env_name # "Development"

\* The gate at the top of visit_mut_module_items: TRUE when the passes run.
gate_open(cfg, ctx) ==
    UnwrapOr(cfg.enabled, ctx.env_name # "Development")

\* Whether an import specifier matches a custom boundary setting
\* (the Named and Default arms of process_custom_boundary_imports).
specifier_matches_boundary(spec, boundary_setting) ==
    CASE spec.kind = "named"   -> external_name(spec) = boundary_setting.component
      [] spec.kind = "default" -> spec.local.sym = boundary_setting.component
      [] OTHER                 -> FALSE

\* The source check that accepts every import declaration
boundary_source_any(import_decl, boundary_setting) == TRUE

\* Whether the import declaration is from the setting's source module
boundary_source_matches(import_decl, boundary_setting) ==
    boundary_setting.from = import_decl.src

\* process_custom_boundary_imports for the map entries order[k..], visited in
\* this order: the contexts and the stored configuration after the call.
RECURSIVE process_custom_boundary_entries(_, _, _, _, _, _)
process_custom_boundary_entries(contexts, stored, import_decl, map, order, k) ==
    IF k > Len(order)
    THEN [contexts |-> contexts, stored |-> stored]
    ELSE LET boundary_setting == map[order[k]]
             specs == import_decl.specifiers
             hit == IF boundary_source_matches(import_decl, boundary_setting)
                    THEN {i \in DOMAIN specs :
                            specifier_matches_boundary(specs[i], boundary_setting)}
                    ELSE {}
         IN  process_custom_boundary_entries(
                 contexts \cup {specs[i].local.ctxt : i \in hit},
                 IF hit # {} /\ stored = None
                    THEN Some(boundary_setting) ELSE stored,
                 import_decl, map, order, k + 1)

process_custom_boundary_imports(contexts, stored, import_decl, cfg, order) ==
    IF cfg.custom_boundaries = None
    THEN [contexts |-> contexts, stored |-> stored]
    ELSE process_custom_boundary_entries(contexts, stored, import_decl,
             Unwrap(cfg.custom_boundaries), order, 1)

\* First pass of visit_mut_module_items over module_items[i..]: the items and
\* the visitor after the loop.
RECURSIVE first_pass(_, _, _, _, _)
first_pass(items, v, cfg, order, i) ==
    IF i > Len(items) THEN [items |-> items, v |-> v]
    ELSE IF items[i].kind # "import" THEN first_pass(items, v, cfg, order, i + 1)
    ELSE LET is_react == items[i].src = "react"
             r == IF is_react
                  THEN process_react_import(v.react_suspense_contexts, items[i])
                  ELSE [contexts |-> v.react_suspense_contexts,
                        decl |-> items[i], found |-> FALSE]
             c == process_custom_boundary_imports(v.error_boundary_contexts,
                      v.custom_boundary_config, r.decl, cfg, order)
             v2 == [v EXCEPT
                      !.react_import_position =
                          IF is_react THEN Some(i - 1) ELSE @,
                      !.react_suspense_contexts = r.contexts,
                      !.error_boundary_contexts = c.contexts,
                      !.custom_boundary_config = c.stored]
         IN  first_pass([items EXCEPT ![i] = r.decl], v2, cfg, order, i + 1)

\* The custom boundary test that also compares the tag with the component of
\* the stored configuration
is_custom_boundary_of_stored_config(v, jsx_element) ==
    /\ v.custom_boundary_config # None
    /\ jsx_element.name.kind = "ident"
    /\ jsx_element.name.ctxt \in v.error_boundary_contexts
    /\ jsx_element.name.sym = Unwrap(v.custom_boundary_config).component

\* Whether visit_mut_jsx_element takes the custom boundary branch
is_custom_boundary(v, jsx_element) ==
    /\ v.custom_boundary_config # None
    /\ jsx_element.name.kind = "ident"
    /\ jsx_element.name.ctxt \in v.error_boundary_contexts

\* The custom boundary branch reading the tag identifier after the rename
rewrite_custom_boundary_reading_renamed_tag(jsx_element, filename) ==
    LET custom_boundary_ident == JSXIdentName("CustomBoundary", EmptyCtxt)
        ident == custom_boundary_ident
        component_attr == ExprAttr("component", Ident(ident.sym, ident.ctxt))
        id_value == visitor_generate_boundary_id(filename,
                        SymChars(ident.sym), jsx_element.lo)
        id_attr == StrAttr("id", id_value)
    IN  [jsx_element EXCEPT
           !.name = custom_boundary_ident,
           !.closing = IF @ # None THEN Some(custom_boundary_ident) ELSE @,
           !.attrs = Append(Append(@, component_attr), id_attr)]

\* The custom boundary branch of visit_mut_jsx_element
rewrite_custom_boundary(jsx_element, filename) ==
    LET ident == jsx_element.name
        custom_boundary_ident == JSXIdentName("CustomBoundary", EmptyCtxt)
        component_attr == ExprAttr("component", Ident(ident.sym, ident.ctxt))
        id_value == visitor_generate_boundary_id(filename,
                        SymChars(ident.sym), jsx_element.lo)
        id_attr == StrAttr("id", id_value)
    IN  [jsx_element EXCEPT
           !.name = custom_boundary_ident,
           !.closing = IF @ # None THEN Some(custom_boundary_ident) ELSE @,
           !.attrs = Append(Append(@, component_attr), id_attr)]

\* The React Suspense branch of visit_mut_jsx_element
rewrite_suspense(jsx_element, filename) ==
    LET tracker == JSXIdentName(SUSPENSE_TRACKER_IMPORT_NAME, EmptyCtxt)
        id_value == visitor_generate_boundary_id(filename,
                        SymChars("Suspense"), jsx_element.lo)
        id_attr == StrAttr("id", id_value)
    IN  [jsx_element EXCEPT
           !.name = tracker,
           !.closing = IF @ # None THEN Some(tracker) ELSE @,
           !.attrs = Append(@, id_attr)]

\* The JSX elements directly below an element, in visiting order: those in
\* the attribute values of the opening tag, then the children.
element_children(jsx_element) ==
    LET in_attrs == SelectSeq(jsx_element.attrs,
                              LAMBDA a : a.kind = "element")
    IN  [i \in 1..Len(in_attrs) |-> in_attrs[i].element]
        \o jsx_element.children

\* visit_mut_jsx_element on element e, and the visit of a list of elements.
\* st is the arena and the has_suspense_elements flag.
RECURSIVE visit_mut_jsx_element(_, _, _, _)
RECURSIVE visit_elements(_, _, _, _, _)
visit_mut_jsx_element(st, v, filename, e) ==
    LET jsx_element == st.elements[e]
        transformed_to_custom_boundary == is_custom_boundary(v, jsx_element)
        as_suspense == /\ ~transformed_to_custom_boundary
                       /\ is_react_suspense(v.react_suspense_contexts,
                                            jsx_element)
        rewritten ==
            IF transformed_to_custom_boundary
            THEN rewrite_custom_boundary(jsx_element, filename)
            ELSE IF as_suspense THEN rewrite_suspense(jsx_element, filename)
            ELSE jsx_element
        st2 == [elements |-> [st.elements EXCEPT ![e] = rewritten],
                has |-> st.has \/ as_suspense]
    IN  visit_elements(st2, v, filename, element_children(rewritten), 1)

visit_elements(st, v, filename, list, k) ==
    IF k > Len(list) THEN st
    ELSE visit_elements(visit_mut_jsx_element(st, v, filename, list[k]),
                        v, filename, list, k + 1)

\* module_items.visit_mut_children_with(self) over module_items[i..]
RECURSIVE second_pass(_, _, _, _, _)
second_pass(st, v, filename, items, i) ==
    IF i > Len(items) THEN st
    ELSE second_pass(visit_elements(st, v, filename, items[i].roots, 1),
                     v, filename, items, i + 1)

\* Whether the second pass runs at all
needs_traversal(v) ==
    \/ v.react_suspense_contexts # {}
    \/ v.error_boundary_contexts # {}

is_import_decl(module_item) == module_item.kind = "import"

\* get_first_import_index: the 0-based position of the first import
get_first_import_index(items) ==
    LET at == {i \in DOMAIN items : is_import_decl(items[i])}
    IN  IF at = {} THEN None
        ELSE Some((CHOOSE i \in at : \A j \in at : i <= j) - 1)

\* Vec::insert at a 0-based index
Insert(seq, index, x) ==
    SubSeq(seq, 1, index) \o <<x>> \o SubSeq(seq, index + 1, Len(seq))

\* The insertion index computed by the third pass
insert_index(v, items) ==
    IF v.react_import_position # None
    THEN Unwrap(v.react_import_position) + 1
    ELSE UnwrapOr(get_first_import_index(items), 0)

\* The third pass with the test of the imported flag inverted
third_pass_inverted_flag(items, v) ==
    IF v.has_suspense_elements /\ v.suspense_tracker_imported
    THEN [items |-> Insert(items, insert_index(v, items),
                           create_suspense_tracker_import),
          v |-> [v EXCEPT !.suspense_tracker_imported = TRUE]]
    ELSE [items |-> items, v |-> v]

\* Third pass of visit_mut_module_items
third_pass(items, v) ==
    IF v.has_suspense_elements /\ ~v.suspense_tracker_imported
    THEN [items |-> Insert(items, insert_index(v, items),
                           create_suspense_tracker_import),
          v |-> [v EXCEPT !.suspense_tracker_imported = TRUE]]
    ELSE [items |-> items, v |-> v]

\* visit_mut_module_items: the module and the visitor after the call
visit_mut_module_items(items, elems, v, cfg, ctx, order) ==
    IF ~gate_open(cfg, ctx)
    THEN [items |-> items, elements |-> elems, v |-> v]
    ELSE LET p1 == first_pass(items, v, cfg, order, 1)
             p2 == IF needs_traversal(p1.v)
                   THEN second_pass([elements |-> elems,
                                     has |-> p1.v.has_suspense_elements],
                                    p1.v, ctx.filename, p1.items, 1)
                   ELSE [elements |-> elems,
                         has |-> p1.v.has_suspense_elements]
             v2 == [p1.v EXCEPT !.has_suspense_elements = p2.has]
             p3 == third_pass(p1.items, v2)
         IN  [items |-> p3.items, elements |-> p2.elements, v |-> p3.v]

-----------------------------------------------------------------------------
(* Inputs *)

Environments == {"Development", "Test", "Production"}

\* Config.enabled: Option<bool>
EnabledValues == {None, Some(TRUE), Some(FALSE)}

\* CustomBoundarySetting { component, from }
BoundarySetting(component, from) == [component |-> component, from |-> from]

BoundarySettings ==
    { BoundarySetting("MyErrorBoundary", "my-error-lib"),
      BoundarySetting("OtherBoundary", "my-error-lib"),
      BoundarySetting("MyErrorBoundary", "other-lib"),
      BoundarySetting("Suspense", "react") }

KeyNames == <<"errorBoundary", "second", "third">>

\* Config.custom_boundaries: Option<HashMap<String, CustomBoundarySetting>>
CustomBoundaryMaps ==
    UNION { [ {KeyNames[i] : i \in 1..n} -> BoundarySettings ]
            : n \in 0..MaxBoundaries }

CustomBoundaryValues == {None} \cup {Some(m) : m \in CustomBoundaryMaps}

\* The orders in which HashMap::iter may visit the entries of the map
IterationOrders(cfg) ==
    IF cfg.custom_boundaries = None THEN { << >> }
    ELSE LET keys == DOMAIN Unwrap(cfg.custom_boundaries)
         IN  { o \in [1..Cardinality(keys) -> keys] :
                 \A i, j \in DOMAIN o : i # j => o[i] # o[j] }

\* Context.filename of the transform runs
TransformFilename == <<"m", "y", "/", "f", "i", "l", "e", ".", "t", "s", "x">>

\* Import declarations of the modules
ImportCatalogue(res) ==
    LET top == CtxtOf("top", res)
    IN  { ImportItem("react", << NamedSpecifier(None, Ident("useEffect", top)),
                                 NamedSpecifier(None, Ident("Suspense", top)) >>),
          ImportItem("react", << NamedSpecifier(Some("Suspense"),
                                                Ident("MySuspense", top)) >>),
          ImportItem("react", << NamedSpecifier(None, Ident("useState", top)) >>),
          ImportItem("my-error-lib",
                     << NamedSpecifier(None, Ident("MyErrorBoundary", top)) >>),
          ImportItem("my-error-lib",
                     << NamedSpecifier(Some("MyErrorBoundary"),
                                       Ident("CustomEB", top)) >>),
          ImportItem("my-error-lib",
                     << DefaultSpecifier(Ident("MyErrorBoundary", top)) >>),
          ImportItem("my-error-lib",
                     << NamespaceSpecifier(Ident("MyErrorBoundary", top)) >>) }

\* Names of top-level function declarations
FunctionNames == {"App", "Suspense"}

\* The import specifiers of a module, each with the source of its import
ImportedSpecifiers(items) ==
    UNION { { [src |-> items[i].src, spec |-> items[i].specifiers[k]]
              : k \in DOMAIN items[i].specifiers }
            : i \in { j \in DOMAIN items : items[j].kind = "import" } }

\* The names a module binds at its top level
BoundNames(items) ==
    { b.spec.local.sym : b \in ImportedSpecifiers(items) }
    \cup { items[i].sym : i \in { j \in DOMAIN items : items[j].kind = "fn" } }

ComponentNames ==
    {"App", "Suspense", "MySuspense", "MyErrorBoundary", "CustomEB",
     "OtherBoundary"}

\* Tag names of the JSX elements of a module: a component bound at the top
\* level, a Suspense that is not the top-level one (bound in an inner scope
\* or not at all), or the member expression React.Suspense
TagNames(res, items) ==
    { JSXIdentName(sym, CtxtOf("top", res)) :
        sym \in BoundNames(items) \cap ComponentNames }
    \cup { JSXIdentName("Suspense", CtxtOf("free", res)) }
    \cup { JSXMemberName("Suspense") }

\* span.lo of the k-th JSX element parsed: the elements start 160 bytes
\* apart
SpanLoOf(k) == 10 + 160 * (k - 1)

-----------------------------------------------------------------------------
(* Specification of the transform *)

NoCall == [fn |-> "none", filename |-> << >>, label |-> << >>, number |-> 0]

\* The visitor as transform_visitor_with_config of lib.rs constructs it
\* (enabled: Some(true), any custom boundaries), before an empty module, with
\* or without the resolver having run.
Init ==
    /\ config \in [enabled : {Some(TRUE)},
                   custom_boundaries : CustomBoundaryValues]
    /\ context \in [env_name : {"Development"}, filename : {TransformFilename}]
    /\ resolved \in BOOLEAN
    /\ module_items = << >>
    /\ elements = << >>
    /\ has_suspense_elements = NewVisitor.has_suspense_elements
    /\ suspense_tracker_imported = NewVisitor.suspense_tracker_imported
    /\ react_suspense_contexts = NewVisitor.react_suspense_contexts
    /\ react_import_position = NewVisitor.react_import_position
    /\ error_boundary_contexts = NewVisitor.error_boundary_contexts
    /\ custom_boundary_config = NewVisitor.custom_boundary_config
    /\ phase = "build"
    /\ input_items = << >>
    /\ input_elements = << >>
    /\ id_args = NoCall
    /\ id_result = << >>

visitor_vars == << has_suspense_elements, suspense_tracker_imported,
                   react_suspense_contexts, react_import_position,
                   error_boundary_contexts, custom_boundary_config >>

ImportCount(items) == Len(SelectSeq(items, LAMBDA it : it.kind = "import"))
FunctionCount(items) == Len(SelectSeq(items, LAMBDA it : it.kind = "fn"))

\* The host parses one more import declaration
AddImport ==
    /\ phase = "build"
    /\ ImportCount(module_items) < MaxImports
    /\ \E decl \in ImportCatalogue(resolved) :
          /\ BoundNames(<<decl>>) \cap BoundNames(module_items) = {}
          /\ module_items' = Append(module_items, decl)
    /\ UNCHANGED << config, context, resolved, elements, visitor_vars, phase,
                    input_items, input_elements, id_args, id_result >>

\* The host parses one more top-level function declaration
AddFunction ==
    /\ phase = "build"
    /\ FunctionCount(module_items) < MaxFunctions
    /\ \E sym \in FunctionNames \ BoundNames(module_items) :
          module_items' = Append(module_items, FnItem(sym))
    /\ UNCHANGED << config, context, resolved, elements, visitor_vars, phase,
                    input_items, input_elements, id_args, id_result >>

\* The host parses one more JSX element directly in a function body
AddRootElement ==
    /\ phase = "build"
    /\ Len(elements) < MaxElements
    /\ \E i \in DOMAIN module_items, name \in TagNames(resolved, module_items),
          has_closing \in {TRUE}, lo \in {SpanLoOf(Len(elements) + 1)} :
          /\ module_items[i].kind = "fn"
          /\ elements' = Append(elements, JSXElement(name, has_closing, lo))
          /\ module_items' = [module_items EXCEPT
                                ![i].roots = Append(@, Len(elements) + 1)]
    /\ UNCHANGED << config, context, resolved, visitor_vars, phase,
                    input_items, input_elements, id_args, id_result >>

\* The host parses one more JSX element as a child of an element
AddChildElement ==
    /\ phase = "build"
    /\ Len(elements) < MaxElements
    /\ \E p \in DOMAIN elements, name \in TagNames(resolved, module_items),
          has_closing \in {TRUE}, lo \in {SpanLoOf(Len(elements) + 1)} :
          /\ elements[p].closing # None
          /\ elements' = Append([elements EXCEPT
                                   ![p].children = Append(@, Len(elements) + 1)],
                                JSXElement(name, has_closing, lo))
    /\ UNCHANGED << config, context, resolved, module_items, visitor_vars,
                    phase, input_items, input_elements, id_args, id_result >>

\* The host parses one more JSX element as the value of a fallback attribute
AddAttrElement ==
    /\ phase = "build"
    /\ Len(elements) < MaxElements
    /\ \E p \in DOMAIN elements, name \in TagNames(resolved, module_items),
          has_closing \in {FALSE}, lo \in {SpanLoOf(Len(elements) + 1)} :
          /\ \A k \in DOMAIN elements[p].attrs :
                elements[p].attrs[k].name # "fallback"
          /\ elements' = Append([elements EXCEPT
                                   ![p].attrs = Append(@,
                                       ElementAttr("fallback", Len(elements) + 1))],
                                JSXElement(name, has_closing, lo))
    /\ UNCHANGED << config, context, resolved, module_items, visitor_vars,
                    phase, input_items, input_elements, id_args, id_result >>

\* process_transform: a fresh visitor's visit_mut_module_items over the module
Transform ==
    /\ phase = "build"
    /\ \E order \in IterationOrders(config) :
          LET r == visit_mut_module_items(module_items, elements, NewVisitor,
                                          config, context, order)
          IN  /\ module_items' = r.items
              /\ elements' = r.elements
              /\ has_suspense_elements' = r.v.has_suspense_elements
              /\ suspense_tracker_imported' = r.v.suspense_tracker_imported
              /\ react_suspense_contexts' = r.v.react_suspense_contexts
              /\ react_import_position' = r.v.react_import_position
              /\ error_boundary_contexts' = r.v.error_boundary_contexts
              /\ custom_boundary_config' = r.v.custom_boundary_config
    /\ input_items' = module_items
    /\ input_elements' = elements
    /\ phase' = "done"
    /\ UNCHANGED << config, context, resolved, id_args, id_result >>

Next ==
    \/ AddImport
    \/ AddFunction
    \/ AddRootElement
    \/ AddChildElement
    \/ AddAttrElement
    \/ Transform

Spec == Init /\ [][Next]_vars

-----------------------------------------------------------------------------
(* Specification of the gate: every enabled value in every environment, over
   modules whose elements are not nested *)

\* The configuration of the custom boundary tests of lib.rs
ErrorBoundaryConfig ==
    [k \in {KeyNames[1]} |-> BoundarySetting("MyErrorBoundary", "my-error-lib")]

InitGate ==
    /\ config \in [enabled : EnabledValues,
                   custom_boundaries : {None, Some(ErrorBoundaryConfig)}]
    /\ context \in [env_name : Environments, filename : {TransformFilename}]
    /\ resolved = TRUE
    /\ module_items = << >>
    /\ elements = << >>
    /\ has_suspense_elements = NewVisitor.has_suspense_elements
    /\ suspense_tracker_imported = NewVisitor.suspense_tracker_imported
    /\ react_suspense_contexts = NewVisitor.react_suspense_contexts
    /\ react_import_position = NewVisitor.react_import_position
    /\ error_boundary_contexts = NewVisitor.error_boundary_contexts
    /\ custom_boundary_config = NewVisitor.custom_boundary_config
    /\ phase = "build"
    /\ input_items = << >>
    /\ input_elements = << >>
    /\ id_args = NoCall
    /\ id_result = << >>

NextGate ==
    \/ AddImport
    \/ AddFunction
    \/ AddRootElement
    \/ Transform

SpecGate == InitGate /\ [][NextGate]_vars

-----------------------------------------------------------------------------
(* Specification of the id helpers: one helper applied to drawn arguments *)

FilenameChars == {".", "/", "\\", "a"}
LabelChars == {"S", "e"}

SeqsUpTo(chars, n) == UNION { [1..k -> chars] : k \in 0..n }

Filenames == SeqsUpTo(FilenameChars, MaxFilenameLen)
Labels == SeqsUpTo(LabelChars, MaxLabelLen) \ { << >> }
Lines == 1..MaxLine
\* Offsets at the first and the last column of the 80-column lines
IdSpanLos == { 80 * l + r : l \in 0..(MaxLine - 1), r \in {0, 79} }
BoundaryTagSyms == {"MyErrorBoundary", "CustomEB", "Suspense"}

InitIds ==
    /\ config = [enabled |-> Some(TRUE), custom_boundaries |-> None]
    /\ context = [env_name |-> "Development", filename |-> TransformFilename]
    /\ resolved = TRUE
    /\ module_items = << >>
    /\ elements = << >>
    /\ has_suspense_elements = NewVisitor.has_suspense_elements
    /\ suspense_tracker_imported = NewVisitor.suspense_tracker_imported
    /\ react_suspense_contexts = NewVisitor.react_suspense_contexts
    /\ react_import_position = NewVisitor.react_import_position
    /\ error_boundary_contexts = NewVisitor.error_boundary_contexts
    /\ custom_boundary_config = NewVisitor.custom_boundary_config
    /\ phase = "build"
    /\ input_items = << >>
    /\ input_elements = << >>
    /\ id_args = NoCall
    /\ id_result = << >>

ids_frame == << config, context, resolved, module_items, elements,
                visitor_vars, phase, input_items, input_elements >>

\* helpers::generate_boundary_id(filename, line)
CallGenerateBoundaryId ==
    /\ id_args = NoCall
    /\ \E filename \in Filenames, line \in Lines :
          /\ id_args' = [fn |-> "generate_boundary_id", filename |-> filename,
                         label |-> << >>, number |-> line]
          /\ id_result' = generate_boundary_id(filename, line)
    /\ UNCHANGED ids_frame

\* TransformVisitor::generate_boundary_id(name, span_lo) of a visitor whose
\* context has the file name
CallVisitorGenerateBoundaryId ==
    /\ id_args = NoCall
    /\ \E filename \in Filenames, label \in Labels, span_lo \in IdSpanLos :
          /\ id_args' = [fn |-> "visitor_generate_boundary_id",
                         filename |-> filename, label |-> label,
                         number |-> span_lo]
          /\ id_result' = visitor_generate_boundary_id(filename, label, span_lo)
    /\ UNCHANGED ids_frame

\* The id attribute the Suspense branch of visit_mut_jsx_element appends
CallRewriteSuspense ==
    /\ id_args = NoCall
    /\ \E filename \in Filenames, span_lo \in IdSpanLos :
          LET e == JSXElement(JSXIdentName("Suspense", TopLevelCtxt), TRUE,
                              span_lo)
              out == rewrite_suspense(e, filename)
          IN  /\ id_args' = [fn |-> "rewrite_suspense", filename |-> filename,
                             label |-> SymChars("Suspense"),
                             number |-> span_lo]
              /\ id_result' = out.attrs[Len(out.attrs)].str
    /\ UNCHANGED ids_frame

\* The id attribute the custom boundary branch appends
CallRewriteCustomBoundary ==
    /\ id_args = NoCall
    /\ \E filename \in Filenames, sym \in BoundaryTagSyms,
          span_lo \in IdSpanLos :
          LET e == JSXElement(JSXIdentName(sym, TopLevelCtxt), TRUE, span_lo)
              out == rewrite_custom_boundary(e, filename)
          IN  /\ id_args' = [fn |-> "rewrite_custom_boundary",
                             filename |-> filename, label |-> SymChars(sym),
                             number |-> span_lo]
              /\ id_result' = out.attrs[Len(out.attrs)].str
    /\ UNCHANGED ids_frame

NextIds ==
    \/ CallGenerateBoundaryId
    \/ CallVisitorGenerateBoundaryId
    \/ CallRewriteSuspense
    \/ CallRewriteCustomBoundary

SpecIds == InitIds /\ [][NextIds]_vars

-----------------------------------------------------------------------------
(* Specification of the iteration order: a custom boundary map with two
   entries, whose entries HashMap::iter may visit in either order *)

\* Two boundaries of one source module
OrderBoundarySettings ==
    { BoundarySetting("MyErrorBoundary", "my-error-lib"),
      BoundarySetting("OtherBoundary", "my-error-lib") }

\* The maps with the two keys
OrderMaps == [ {KeyNames[1], KeyNames[2]} -> OrderBoundarySettings ]

\* Import declarations of the modules, one of them binding both boundaries
OrderImportCatalogue(res) ==
    LET top == CtxtOf("top", res)
    IN  { ImportItem("react", << NamedSpecifier(None, Ident("useEffect", top)),
                                 NamedSpecifier(None, Ident("Suspense", top)) >>),
          ImportItem("my-error-lib",
                     << NamedSpecifier(None, Ident("MyErrorBoundary", top)),
                        NamedSpecifier(None, Ident("OtherBoundary", top)) >>),
          ImportItem("my-error-lib",
                     << NamedSpecifier(None, Ident("OtherBoundary", top)) >>),
          ImportItem("my-error-lib",
                     << NamedSpecifier(Some("MyErrorBoundary"),
                                       Ident("CustomEB", top)) >>) }

InitOrder ==
    /\ config \in [enabled : {Some(TRUE)},
                   custom_boundaries : {Some(m) : m \in OrderMaps}]
    /\ context \in [env_name : {"Development"}, filename : {TransformFilename}]
    /\ resolved \in BOOLEAN
    /\ module_items = << >>
    /\ elements = << >>
    /\ has_suspense_elements = NewVisitor.has_suspense_elements
    /\ suspense_tracker_imported = NewVisitor.suspense_tracker_imported
    /\ react_suspense_contexts = NewVisitor.react_suspense_contexts
    /\ react_import_position = NewVisitor.react_import_position
    /\ error_boundary_contexts = NewVisitor.error_boundary_contexts
    /\ custom_boundary_config = NewVisitor.custom_boundary_config
    /\ phase = "build"
    /\ input_items = << >>
    /\ input_elements = << >>
    /\ id_args = NoCall
    /\ id_result = << >>

\* The host parses one more import declaration
AddOrderImport ==
    /\ phase = "build"
    /\ ImportCount(module_items) < MaxImports
    /\ \E decl \in OrderImportCatalogue(resolved) :
          /\ BoundNames(<<decl>>) \cap BoundNames(module_items) = {}
          /\ module_items' = Append(module_items, decl)
    /\ UNCHANGED << config, context, resolved, elements, visitor_vars, phase,
                    input_items, input_elements, id_args, id_result >>

NextOrder ==
    \/ AddOrderImport
    \/ AddFunction
    \/ AddRootElement
    \/ AddChildElement
    \/ AddAttrElement
    \/ Transform

SpecOrder == InitOrder /\ [][NextOrder]_vars

-----------------------------------------------------------------------------
(* Specification of repeated runs: after the transform, the whole transform
   or the traversal alone runs once more over the rewritten module *)

InitAgain ==
    /\ config \in [enabled : {Some(TRUE)},
                   custom_boundaries : {None, Some(ErrorBoundaryConfig)}]
    /\ context \in [env_name : {"Development"}, filename : {TransformFilename}]
    /\ resolved \in BOOLEAN
    /\ module_items = << >>
    /\ elements = << >>
    /\ has_suspense_elements = NewVisitor.has_suspense_elements
    /\ suspense_tracker_imported = NewVisitor.suspense_tracker_imported
    /\ react_suspense_contexts = NewVisitor.react_suspense_contexts
    /\ react_import_position = NewVisitor.react_import_position
    /\ error_boundary_contexts = NewVisitor.error_boundary_contexts
    /\ custom_boundary_config = NewVisitor.custom_boundary_config
    /\ phase = "build"
    /\ input_items = << >>
    /\ input_elements = << >>
    /\ id_args = NoCall
    /\ id_result = << >>

\* process_transform once more, on the module the first call returned: a
\* fresh visitor's visit_mut_module_items
TransformAgain ==
    /\ phase = "done"
    /\ \E order \in IterationOrders(config) :
          LET r == visit_mut_module_items(module_items, elements, NewVisitor,
                                          config, context, order)
          IN  /\ module_items' = r.items
              /\ elements' = r.elements
              /\ has_suspense_elements' = r.v.has_suspense_elements
              /\ suspense_tracker_imported' = r.v.suspense_tracker_imported
              /\ react_suspense_contexts' = r.v.react_suspense_contexts
              /\ react_import_position' = r.v.react_import_position
              /\ error_boundary_contexts' = r.v.error_boundary_contexts
              /\ custom_boundary_config' = r.v.custom_boundary_config
    /\ input_items' = module_items
    /\ input_elements' = elements
    /\ phase' = "again"
    /\ UNCHANGED << config, context, resolved, id_args, id_result >>

\* module_items.visit_mut_children_with(self) once more, by the visitor that
\* made the first call, with the bindings it recorded
TraverseAgain ==
    /\ phase = "done"
    /\ LET v == [has_suspense_elements |-> has_suspense_elements,
                 suspense_tracker_imported |-> suspense_tracker_imported,
                 react_suspense_contexts |-> react_suspense_contexts,
                 react_import_position |-> react_import_position,
                 error_boundary_contexts |-> error_boundary_contexts,
                 custom_boundary_config |-> custom_boundary_config]
           r == second_pass([elements |-> elements,
                             has |-> has_suspense_elements],
                            v, context.filename, module_items, 1)
       IN  /\ elements' = r.elements
           /\ has_suspense_elements' = r.has
    /\ input_items' = module_items
    /\ input_elements' = elements
    /\ phase' = "traversed"
    /\ UNCHANGED << config, context, resolved, module_items,
                    suspense_tracker_imported, react_suspense_contexts,
                    react_import_position, error_boundary_contexts,
                    custom_boundary_config, id_args, id_result >>

NextAgain ==
    \/ AddImport
    \/ AddFunction
    \/ AddRootElement
    \/ AddChildElement
    \/ Transform
    \/ TransformAgain
    \/ TraverseAgain

SpecAgain == InitAgain /\ [][NextAgain]_vars

-----------------------------------------------------------------------------
(* Specification of the line numbers: elements placed in source text whose
   lines have drawn lengths *)

\* Lengths in bytes of a source line, without its newline
LineLengths == {0, 10, 16, 47, 120}

\* The lines of the source text before the line an element starts on
Layouts == SeqsUpTo(LineLengths, MaxPrecedingLines)

\* Columns (0-based, in bytes) at which an element starts on its line
Columns == {0, 4}

\* BytePos of the first byte of the file (the first file of a source map)
FileStartPositions == {1}

RECURSIVE LineStart(_, _)
\* Offset in the file of the first byte of line number line (1-based)
LineStart(layout, line) ==
    IF line = 1 THEN 0
    ELSE LineStart(layout, line - 1) + layout[line - 1] + 1

\* span.lo of an element starting at a column of a line of the file
SpanLoAt(start, layout, line, column) ==
    start + LineStart(layout, line) + column

\* helpers::extract_line_number on the span.lo of an element that starts after
\* the lines of the layout
CallExtractLineNumber ==
    /\ id_args = NoCall
    /\ \E start \in FileStartPositions, layout \in Layouts, column \in Columns :
          LET line == Len(layout) + 1
              span_lo == SpanLoAt(start, layout, line, column)
          IN  /\ id_args' = [fn |-> "extract_line_number",
                             filename |-> << >>, label |-> << >>,
                             number |-> span_lo, line |-> line,
                             other_line |-> line]
              /\ id_result' = extract_line_number(span_lo)
    /\ UNCHANGED ids_frame

\* The Suspense branch of visit_mut_jsx_element on two elements of one file:
\* one starting on some line of the layout, one after its last line
CallRewriteTwoElements ==
    /\ id_args = NoCall
    /\ \E start \in FileStartPositions, layout \in Layouts,
          column \in Columns, other_column \in Columns :
          \E line \in 1..(Len(layout) + 1) :
             LET other_line == Len(layout) + 1
                 lo == SpanLoAt(start, layout, line, column)
                 other_lo == SpanLoAt(start, layout, other_line, other_column)
                 name == JSXIdentName("Suspense", TopLevelCtxt)
                 out == rewrite_suspense(JSXElement(name, TRUE, lo),
                                         context.filename)
                 other_out == rewrite_suspense(JSXElement(name, TRUE, other_lo),
                                               context.filename)
             IN  /\ lo <= other_lo
                 /\ id_args' = [fn |-> "rewrite_two_elements",
                                filename |-> context.filename,
                                label |-> SymChars("Suspense"),
                                number |-> lo, line |-> line,
                                other_line |-> other_line]
                 /\ id_result' = << out.attrs[Len(out.attrs)].str,
                                    other_out.attrs[Len(other_out.attrs)].str >>
    /\ UNCHANGED ids_frame

NextLines ==
    \/ CallExtractLineNumber
    \/ CallRewriteTwoElements

SpecLines == InitIds /\ [][NextLines]_vars

-----------------------------------------------------------------------------
(* Vocabulary of the properties *)

\* The number of characters the documented normalisation strips
StrippedPrefixLen(filename) ==
    IF Len(filename) >= 2 /\ filename[1] = "." /\ filename[2] = "/" THEN 2
    ELSE IF Len(filename) >= 1 /\ filename[1] = "/" THEN 1
    ELSE 0

\* s is the file name with one leading "./" or "/" stripped and every
\* backslash turned into a forward slash
IsNormalizedFilenameOf(s, filename) ==
    LET k == StrippedPrefixLen(filename)
    IN  /\ Len(s) = Len(filename) - k
        /\ \A i \in 1..Len(s) :
              s[i] = IF filename[i + k] = "\\" THEN "/" ELSE filename[i + k]

DigitValue(c) ==
    CASE c = "0" -> 0 [] c = "1" -> 1 [] c = "2" -> 2 [] c = "3" -> 3
      [] c = "4" -> 4 [] c = "5" -> 5 [] c = "6" -> 6 [] c = "7" -> 7
      [] c = "8" -> 8 [] c = "9" -> 9 [] OTHER -> -1

RECURSIVE DecimalValue(_)
DecimalValue(s) ==
    IF Len(s) = 0 THEN 0
    ELSE 10 * DecimalValue(SubSeq(s, 1, Len(s) - 1)) + DigitValue(s[Len(s)])

\* s is the decimal numeral of n
IsDecimalOf(s, n) ==
    /\ Len(s) >= 1
    /\ \A i \in 1..Len(s) : DigitValue(s[i]) >= 0
    /\ Len(s) > 1 => s[1] # "0"
    /\ DecimalValue(s) = n

\* id is <normalized filename><middle><decimal line> for some split
HasIdForm(id, filename, middle, line) ==
    \E n \in 0..Len(id) :
        /\ IsNormalizedFilenameOf(SubSeq(id, 1, n), filename)
        /\ Len(id) >= n + Len(middle) + 1
        /\ SubSeq(id, n + 1, n + Len(middle)) = middle
        /\ IsDecimalOf(SubSeq(id, n + Len(middle) + 1, Len(id)), line)

\* The visitor's fields, as one record
Visitor ==
    [has_suspense_elements |-> has_suspense_elements,
     suspense_tracker_imported |-> suspense_tracker_imported,
     react_suspense_contexts |-> react_suspense_contexts,
     react_import_position |-> react_import_position,
     error_boundary_contexts |-> error_boundary_contexts,
     custom_boundary_config |-> custom_boundary_config]

Transformed == phase = "done"

\* The transform left the whole module as it was handed in
ModuleUnchanged ==
    /\ module_items = input_items
    /\ elements = input_elements

TrackerName == [kind |-> "ident", sym |-> "SuspenseTrackerSWC", ctxt |-> 0]
CustomBoundaryName == [kind |-> "ident", sym |-> "CustomBoundary", ctxt |-> 0]

\* A named specifier that imports the export called name (plain or aliased)
ImportsExport(spec, name) ==
    /\ spec.kind = "named"
    /\ \/ spec.imported = {name}
       \/ spec.imported = {} /\ spec.local.sym = name

\* The local identifiers the input module binds by a named import of
\* Suspense from "react" (plain or aliased)
ReactSuspenseLocals ==
    { b.spec.local : b \in { c \in ImportedSpecifiers(input_items) :
                               /\ c.src = "react"
                               /\ ImportsExport(c.spec, "Suspense") } }

\* The input module imports Suspense from "react" under the name sym
ImportsReactSuspenseAs(sym) ==
    \E local \in ReactSuspenseLocals : local.sym = sym

\* The input module declares a top-level function called sym
DeclaresFunction(sym) ==
    \E i \in DOMAIN input_items :
        input_items[i].kind = "fn" /\ input_items[i].sym = sym

\* Input element e has the identifier local as its tag
TagIs(e, local) ==
    input_elements[e].name =
        [kind |-> "ident", sym |-> local.sym, ctxt |-> local.ctxt]

\* The transform changed element e / left it as it was
Rewritten(e) == elements[e].name # input_elements[e].name
Untouched(e) == elements[e] = input_elements[e]

\* The custom boundary settings of the configuration
ConfiguredBoundaries ==
    IF config.custom_boundaries = None THEN {}
    ELSE LET map == Unwrap(config.custom_boundaries)
         IN  { map[k] : k \in DOMAIN map }

\* Import specifier b (with its source) is a named or default import of the
\* component of a custom boundary setting, from its source module
MatchesBoundary(b, setting) ==
    /\ b.src = setting.from
    /\ \/ ImportsExport(b.spec, setting.component)
       \/ b.spec.kind = "default" /\ b.spec.local.sym = setting.component

IsReactSuspenseImport(b) ==
    b.src = "react" /\ ImportsExport(b.spec, "Suspense")

\* The import specifiers of the input module that match a configured custom
\* boundary
CustomBoundaryImports ==
    { b \in ImportedSpecifiers(input_items) :
        \E setting \in ConfiguredBoundaries : MatchesBoundary(b, setting) }

\* The input module has no import specifier matching a configured boundary
NoBoundaryImport ==
    /\ ReactSuspenseLocals = {}
    /\ CustomBoundaryImports = {}

\* What the closing tag of a renamed element must be
ClosingRenamed(e, name) ==
    elements[e].closing =
        IF input_elements[e].closing = {} THEN {} ELSE {name}

\* The id attribute of element e for a label
IdAttr(e, label) ==
    [name |-> "id", kind |-> "str",
     str |-> visitor_generate_boundary_id(context.filename, SymChars(label),
                                          input_elements[e].lo),
     ident |-> [sym |-> "", ctxt |-> 0], element |-> 0]

\* The component attribute referencing an identifier
ComponentAttr(local) ==
    [name |-> "component", kind |-> "expr", str |-> << >>,
     ident |-> local, element |-> 0]

\* Element e was rewritten to the Suspense tracker tag with an added id
RewrittenAsSuspense(e) ==
    /\ elements[e].name = TrackerName
    /\ ClosingRenamed(e, TrackerName)
    /\ elements[e].attrs =
          input_elements[e].attrs \o << IdAttr(e, "Suspense") >>
    /\ elements[e].children = input_elements[e].children

\* Element e, tagged local, was rewritten to CustomBoundary with component
\* and id added
RewrittenAsCustomBoundary(e, local) ==
    /\ elements[e].name = CustomBoundaryName
    /\ ClosingRenamed(e, CustomBoundaryName)
    /\ elements[e].attrs =
          input_elements[e].attrs
             \o << ComponentAttr(local), IdAttr(e, local.sym) >>
    /\ elements[e].children = input_elements[e].children

\* The elements that ended with the Suspense tracker tag
TrackerElements ==
    { e \in DOMAIN elements : elements[e].name = TrackerName }

\* The positions of the imports of the tracker symbol from the tracker package
TrackerImports(items) ==
    { i \in DOMAIN items :
        /\ items[i].kind = "import"
        /\ items[i].src = "react-swc-suspense-tracker/context"
        /\ \E k \in DOMAIN items[i].specifiers :
              items[i].specifiers[k].local.sym = "SuspenseTrackerSWC" }

-----------------------------------------------------------------------------
(* Properties *)

\* C1: with enabled unset, a module that imports Suspense from "react" and
\* renders it has the element rewritten in Development and is left
\* completely unchanged in Production and in Test.
C1_EnvironmentDefault ==
    (Transformed /\ config.enabled = None /\ ImportsReactSuspenseAs("Suspense"))
    => \A e \in DOMAIN input_elements :
          TagIs(e, CHOOSE l \in ReactSuspenseLocals : l.sym = "Suspense") =>
             /\ context.env_name = "Development" => Rewritten(e)
             /\ context.env_name # "Development" => ModuleUnchanged

C3_NoBoundaryImportNoChange ==
    (Transformed /\ NoBoundaryImport) => ModuleUnchanged

\* C3 witness: a custom boundary configured for another source module, and a
\* module that imports and renders a component of that name
C3_Witness ==
    /\ Transformed
    /\ NoBoundaryImport
    /\ ConfiguredBoundaries =
          { [component |-> "MyErrorBoundary", from |-> "other-lib"] }
    /\ \E b \in ImportedSpecifiers(input_items), e \in DOMAIN input_elements :
          /\ ImportsExport(b.spec, "MyErrorBoundary")
          /\ TagIs(e, b.spec.local)

\* C4: an element spelled Suspense that refers to a user-declared symbol is
\* never rewritten, both in a module without a Suspense import from "react"
\* and in a module that imports Suspense under an alias and declares its own
\* top-level function Suspense; there only the alias elements are rewritten.
\* (Stated for transforms without custom boundaries, where the Suspense
\* matcher alone decides.)
C4_UserDefinedSuspenseUntouched ==
    (Transformed /\ config.custom_boundaries = None
       /\ ~ImportsReactSuspenseAs("Suspense"))
    => \A e \in DOMAIN input_elements :
          /\ ( /\ input_elements[e].name.kind = "ident"
               /\ input_elements[e].name.sym = "Suspense"
               /\ ReactSuspenseLocals = {} \/ DeclaresFunction("Suspense") )
             => Untouched(e)
          /\ DeclaresFunction("Suspense") =>
                ( Rewritten(e) <=> \E l \in ReactSuspenseLocals : TagIs(e, l) )

\* C5: with Suspense imported from "react" under an alias, every element
\* whose tag is the alias is rewritten to the tracker tag with an added id.
\* (Stated for transforms without custom boundaries.)
C5_AliasedSuspenseRewritten ==
    (Transformed /\ config.custom_boundaries = None)
    => \A e \in DOMAIN input_elements :
          \A l \in ReactSuspenseLocals :
             (l.sym # "Suspense" /\ TagIs(e, l)) => RewrittenAsSuspense(e)

\* C6: whenever n >= 1 elements are rewritten to the Suspense tracker, the
\* transform has injected exactly one import of SuspenseTrackerSWC from the
\* tracker package, and each of the n elements carries its id.
C6_ExactlyOneTrackerImport ==
    (Transformed /\ TrackerElements # {})
    => /\ Cardinality(TrackerImports(module_items)) = 1
       /\ Len(module_items) = Len(input_items) + 1
       /\ \A e \in TrackerElements : RewrittenAsSuspense(e)

\* C6 witness: two elements rewritten, one import injected
C6_Witness ==
    /\ Transformed
    /\ Cardinality(TrackerElements) = 2
    /\ Cardinality(TrackerImports(module_items)) = 1

\* C7: when a gated-on transform matches zero elements, the module is left
\* untouched even if it imports Suspense from "react": same import list and
\* specifiers after the call as before.
C7_ZeroMatchesUntouched ==
    (Transformed /\ ReactSuspenseLocals # {}
       /\ \A e \in DOMAIN input_elements : Untouched(e))
    => module_items = input_items

\* C8 as stated: for a configured custom boundary, every element whose tag
\* is the local binding of a matching named (plain or aliased) or default
\* import is rewritten to CustomBoundary (opening and closing tag), with a
\* component attribute referencing the original tag identifier and an id
\* attribute with the generated id appended; the original import is kept.
C8_CustomBoundaryRewrite ==
    Transformed =>
       \A b \in CustomBoundaryImports :
          /\ b \in ImportedSpecifiers(module_items)
          /\ \A e \in DOMAIN input_elements :
                TagIs(e, b.spec.local) =>
                   RewrittenAsCustomBoundary(e, b.spec.local)

\* C8 amended: the same, for every matching import other than a named import
\* of Suspense from "react" (the built-in Suspense boundary takes that
\* specifier before the custom boundaries are matched).
C8_CustomBoundaryRewriteExceptReactSuspense ==
    Transformed =>
       \A b \in CustomBoundaryImports :
          ~IsReactSuspenseImport(b) =>
             /\ b \in ImportedSpecifiers(module_items)
             /\ \A e \in DOMAIN input_elements :
                   TagIs(e, b.spec.local) =>
                      RewrittenAsCustomBoundary(e, b.spec.local)

\* C8 witness: an element with a closing tag, tagged with the alias of a
\* matching import, rewritten to CustomBoundary
C8_Witness ==
    /\ Transformed
    /\ \E b \in CustomBoundaryImports, e \in DOMAIN input_elements :
          /\ ~IsReactSuspenseImport(b)
          /\ b.spec.imported # {}
          /\ TagIs(e, b.spec.local)
          /\ input_elements[e].closing # {}
          /\ RewrittenAsCustomBoundary(e, b.spec.local)

\* C9: in a module that imports both Suspense from "react" and a configured
\* custom boundary, every element tagged with the imported Suspense becomes
\* SuspenseTrackerSWC with only an id added, and every element tagged with
\* the custom boundary becomes CustomBoundary with component and id added.
C9_EachKindOwnWrapper ==
    (Transformed /\ ImportsReactSuspenseAs("Suspense"))
    => \A b \in CustomBoundaryImports :
          ~IsReactSuspenseImport(b) =>
             \A e \in DOMAIN input_elements :
                /\ TagIs(e, b.spec.local) =>
                      RewrittenAsCustomBoundary(e, b.spec.local)
                /\ \A l \in ReactSuspenseLocals :
                      (l.sym = "Suspense" /\ TagIs(e, l)) =>
                         RewrittenAsSuspense(e)

C11_LineNumberIsSourceLine ==
    /\ id_args.fn = "extract_line_number" => id_result = id_args.line
    /\ id_args.fn = "rewrite_two_elements" =>
          (id_args.line # id_args.other_line => id_result[1] # id_result[2])

\* The output of one more call of the transform on the input module, with a
\* fresh visitor that iterates the custom boundary map in the given order
OutputFor(order) ==
    visit_mut_module_items(input_items, input_elements, NewVisitor, config,
                           context, order)

\* C12: the transform is deterministic and order-independent: a second call
\* on the same input module with the same file name, environment and
\* configuration yields the same output module (items and elements, with
\* their tags and ids), whatever order the entries of the custom boundary map
\* are iterated in and whichever matching entry is stored as the active
\* configuration.
C12_DeterministicOrderIndependent ==
    Transformed =>
       \A order \in IterationOrders(config) :
          /\ OutputFor(order).items = module_items
          /\ OutputFor(order).elements = elements

\* C12 witness: one import matches two different entries of the map, so the
\* stored configuration depends on the iteration order, and an element tagged
\* with each of the two boundaries was rewritten
C12_Witness ==
    /\ Transformed
    /\ \E order \in IterationOrders(config) :
          OutputFor(order).v.custom_boundary_config # custom_boundary_config
    /\ \E e, f \in DOMAIN input_elements :
          /\ input_elements[e].name.sym = "MyErrorBoundary"
          /\ input_elements[f].name.sym = "OtherBoundary"
          /\ elements[e].name = CustomBoundaryName
          /\ elements[f].name = CustomBoundaryName

\* The positions of the imports of the input module from "react" that carry
\* a Suspense specifier (plain or aliased)
SuspenseCarriers ==
    { i \in DOMAIN input_items :
        /\ input_items[i].kind = "import"
        /\ input_items[i].src = "react"
        /\ \E k \in DOMAIN input_items[i].specifiers :
              ImportsExport(input_items[i].specifiers[k], "Suspense") }

\* The items of a module without the one at position i
ItemsWithout(items, i) ==
    SubSeq(items, 1, i - 1) \o SubSeq(items, i + 1, Len(items))

\* The output module without its item at position i has the items of the
\* input module, in their order (import specifiers aside)
KeepsItemOrder(i) ==
    LET rest == ItemsWithout(module_items, i)
    IN  /\ Len(rest) = Len(input_items)
        /\ \A j \in DOMAIN rest :
              /\ rest[j].kind = input_items[j].kind
              /\ rest[j].src = input_items[j].src
              /\ rest[j].sym = input_items[j].sym
              /\ rest[j].roots = input_items[j].roots

\* The rewritten Suspense elements were all tagged with a Suspense binding of
\* the import at position c of the input module
RewrittenFromImport(c) ==
    \A e \in TrackerElements :
       \E k \in DOMAIN input_items[c].specifiers :
          /\ ImportsExport(input_items[c].specifiers[k], "Suspense")
          /\ TagIs(e, input_items[c].specifiers[k].local)

\* C13: when elements were rewritten to the Suspense tracker and exactly one
\* import of the module carries the Suspense specifier they were tagged with,
\* the tracker import stands immediately after that import, also when the
\* module has further imports from "react", and the other items keep their
\* relative order.
C13_TrackerImportAfterSuspenseImport ==
    (Transformed /\ TrackerElements # {} /\ Cardinality(SuspenseCarriers) = 1)
    => LET c == CHOOSE i \in SuspenseCarriers : TRUE
       IN  RewrittenFromImport(c) =>
              /\ TrackerImports(module_items) = {c + 1}
              /\ KeepsItemOrder(c + 1)

\* A second run (the whole transform, or the traversal alone) has gone over
\* the module the first run returned
RanAgain == phase \in {"again", "traversed"}

\* C14: rewriting is a fixed point: a second run of the whole transform, or
\* of the traversal with the bindings of the first run, over the rewritten
\* module changes nothing: every element is as the first run left it (no
\* second id or component attribute) and no further import is injected, for
\* both rewrite kinds and with or without resolved scope contexts.
C14_RewritingIsFixedPoint ==
    RanAgain => ModuleUnchanged

\* The names the imports of the output module bind
OutputImportNames ==
    { b.spec.local.sym : b \in ImportedSpecifiers(module_items) }

\* The tag of input element e is the local binding of a matching import: of
\* Suspense from "react", or of a configured custom boundary
MatchedTag(e) ==
    \/ \E l \in ReactSuspenseLocals : TagIs(e, l)
    \/ \E b \in CustomBoundaryImports : TagIs(e, b.spec.local)

\* C15: after a gated-on transform, each boundary kind with a rewritten
\* element has its import injected: when an element tagged with a matching
\* import binding was renamed to SuspenseTrackerSWC, the flags of the
\* Suspense kind are set; and the wrapper name any such element was renamed
\* to (SuspenseTrackerSWC or CustomBoundary) is bound by an import of the
\* output module.
C15_RewrittenTagIsImported ==
    Transformed =>
       /\ (\E e \in TrackerElements : MatchedTag(e)) =>
             /\ has_suspense_elements
             /\ suspense_tracker_imported
       /\ \A e \in DOMAIN elements :
             (Rewritten(e) /\ MatchedTag(e)) =>
                elements[e].name.sym \in OutputImportNames

\* The transform left the tag, the closing tag and the attributes of element
\* e as they were
KeepsTagAndAttributes(e) ==
    /\ elements[e].name = input_elements[e].name
    /\ elements[e].closing = input_elements[e].closing
    /\ elements[e].attrs = input_elements[e].attrs

\* C16: with a custom boundary configured and its import present, an element
\* is rewritten to CustomBoundary only if its tag identifier (name and scope
\* context) is the local binding of a matching import specifier; every
\* element whose tag is no binding of a matching import (a child of the
\* boundary, an element tagged with another component of the same scope)
\* keeps its tag and attributes. (Stated for modules without a Suspense
\* import from "react", where the custom matcher alone decides.)
C16_CustomMatcherComparesNameAndContext ==
    (Transformed /\ CustomBoundaryImports # {} /\ ReactSuspenseLocals = {}) =>
       \A e \in DOMAIN input_elements :
          /\ (Rewritten(e) /\ elements[e].name = CustomBoundaryName) =>
                \E b \in CustomBoundaryImports : TagIs(e, b.spec.local)
          /\ ~MatchedTag(e) => KeepsTagAndAttributes(e)

\* Input element e stands directly below input element p: as a child, or
\* inside the value of an attribute
DirectlyBelow(p, e) ==
    \/ \E k \in DOMAIN input_elements[p].children :
          input_elements[p].children[k] = e
    \/ \E k \in DOMAIN input_elements[p].attrs :
          /\ input_elements[p].attrs[k].kind = "element"
          /\ input_elements[p].attrs[k].element = e

\* Element e was rewritten exactly once: renamed, its attributes are those it
\* had, in their order, followed by the added ones with exactly one id among
\* them, and its children are those it had, in their order
RewrittenOnce(e) ==
    LET before == input_elements[e].attrs
        after == elements[e].attrs
        added == SubSeq(after, Len(before) + 1, Len(after))
    IN  /\ Rewritten(e)
        /\ Len(after) > Len(before)
        /\ SubSeq(after, 1, Len(before)) = before
        /\ Cardinality({k \in DOMAIN added : added[k].name = "id"}) = 1
        /\ \A k \in DOMAIN added : added[k].name \in {"id", "component"}
        /\ elements[e].children = input_elements[e].children

\* C17: traversal continues below a rewritten element: every element that
\* stands below a rewritten element (as a child or inside an attribute
\* value) and whose tag is the binding of a matching import is rewritten in
\* the same call, exactly once: one id attribute added, the attributes and
\* children it had kept in order, the new attributes after them.
C17_NestedMatchesRewrittenOnce ==
    Transformed =>
       \A p, e \in DOMAIN input_elements :
          (Rewritten(p) /\ DirectlyBelow(p, e) /\ MatchedTag(e)) =>
             RewrittenOnce(e)

=============================================================================
